---- MODULE Spec2Model ----
(***************************************************************************)
(* render-media (index.js): one render()/append() call, the element it     *)
(* renders into, and the asynchronous events that drive it afterwards:     *)
(* element events (progress, loadstart, loadedmetadata, error), the        *)
(* settling of the Blob URL promise, of play() promises and of the         *)
(* sniffing read stream.                                                   *)
(*                                                                         *)
(* The closure state of renderMedia() and the element are held in one      *)
(* record, `sess`; every function of index.js is an operator from a        *)
(* session record to the session record it leaves behind, so that a        *)
(* handler that calls other functions is one step.                         *)
(***************************************************************************)
EXTENDS Integers, Sequences, FiniteSets, TLC

\* ------------------------------------------------------------------ bounds
\* Number of element events dispatched during one render.
MaxEvents == 5
\* Playback positions are 0..MaxTime.
MaxTime == 2

\* ------------------------------------------------------- static tables
\* VIDEOSTREAM_EXTS with an extension that has no MediaSource support
VIDEOSTREAM_EXTS_withOgv == {".m4a", ".m4b", ".m4p", ".m4v", ".mp4", ".ogv"}

VIDEOSTREAM_EXTS == {".m4a", ".m4b", ".m4p", ".m4v", ".mp4"}

MEDIASOURCE_VIDEO_EXTS == {".m4v", ".mkv", ".mp4", ".webm"}

MEDIASOURCE_AUDIO_EXTS == {".m4a", ".m4b", ".m4p", ".mp3"}

MEDIASOURCE_EXTS == MEDIASOURCE_VIDEO_EXTS \cup MEDIASOURCE_AUDIO_EXTS

VIDEO_EXTS == {".mov", ".ogv"}

AUDIO_EXTS == {".aac", ".oga", ".ogg", ".wav", ".flac"}

IMAGE_EXTS == {".bmp", ".gif", ".jpeg", ".jpg", ".png", ".svg"}

IFRAME_EXTS == {".css", ".html", ".js", ".md", ".pdf", ".srt", ".txt"}

MAX_BLOB_LENGTH == 200000000

\* ------------------------------------------------------------- values
\* null / undefined for a numeric property (file.length, opts.maxBlobLength).
NoNumber == -1
IsNumber(x) == x # NoNumber
\* null / undefined for a boolean option.
Null == "null"
NoElem == "none"
\* The empty string, as a file name.
NoName == [stem |-> "", ext |-> ""]
NoErr == [kind |-> "none", annotated |-> FALSE]
Err(kind) == [kind |-> kind, annotated |-> FALSE]

\* String.prototype.toLowerCase / toUpperCase on the strings that occur.
ToLowerCase(str) ==
  CASE str = ".MP4" -> ".mp4"
    [] OTHER -> str

ToUpperCase(str) ==
  CASE str = "video" -> "VIDEO"
    [] str = "audio" -> "AUDIO"
    [] str = "img" -> "IMG"
    [] str = "iframe" -> "IFRAME"
    [] str = "object" -> "OBJECT"
    [] OTHER -> str

\* path.extname(file.name): a file name is held as its stem and its extension.
ExtName(name) == name.ext

\* ------------------------------------------------------------- inputs
\* Extensions of the files rendered: one or two of each table, an upper-case
\* one, and one that is in no table.
FileExts ==
  {".mp4", ".MP4", ".m4a", ".webm", ".mp3", ".ogv", ".wav", ".png", ".txt",
   ".pdf", ".xyz"}

FileLengths == {NoNumber, 50, MAX_BLOB_LENGTH + 1}

ValidFiles ==
  [isNull : {FALSE}, nameIsString : {TRUE}, name : [stem : {"f"}, ext : FileExts],
   length : FileLengths, createReadStream : {TRUE}]

\* file == null; file.name not a string; file.createReadStream not a function.
InvalidFiles ==
  LET f == [isNull |-> FALSE, nameIsString |-> TRUE,
            name |-> [stem |-> "f", ext |-> ".mp4"], length |-> NoNumber,
            createReadStream |-> TRUE]
  IN { [f EXCEPT !.isNull = TRUE],
       [f EXCEPT !.nameIsString = FALSE],
       [f EXCEPT !.createReadStream = FALSE] }

Files == ValidFiles \cup InvalidFiles

OptsIn ==
  [autoplay : {Null, "true"}, muted : {Null}, controls : {Null},
   maxBlobLength : {NoNumber, 10}]

RenderTargets == {"VIDEO", "AUDIO", "IMG", "IFRAME", "OBJECT", "DIV"}
AppendTargets == {"DIV", "VIDEO", "AUDIO"}

\* The first bytes of a file of unknown extension, as the sniffing read
\* delivers them.
Prefixes == {<<104, 105>>, <<104, 0>>, <<104, 200>>}

VARIABLES
  phase,       \* "start", "returned" (the call returned), "thrown"
  api,         \* "render" or "append"
  file,        \* the file argument
  optsIn,      \* the opts argument as passed
  target,      \* nodeName of elem (render) or of rootElem (append)
  MediaSource, \* window.MediaSource is available
  sess         \* closure state of renderMedia, the element, pending work

vars == <<phase, api, file, optsIn, target, MediaSource, sess>>

\* ------------------------------------------------------------ options
parseOpts(o) ==
  [autoplay |-> IF o.autoplay = Null THEN FALSE ELSE o.autoplay = "true",
   muted |-> IF o.muted = Null THEN FALSE ELSE o.muted = "true",
   controls |-> IF o.controls = Null THEN TRUE ELSE o.controls = "true",
   maxBlobLength |->
     IF o.maxBlobLength = NoNumber THEN MAX_BLOB_LENGTH ELSE o.maxBlobLength]

opts == parseOpts(optsIn)

extname == ToLowerCase(ExtName(file.name))

\* ------------------------------------------------------------ session
\* elem         the closure variable `elem`: NoElem or the element's tag
\* attached     the element is a child of its parent
\* mediaOpts    what setMediaOpts wrote on the element
\* listeners    the element's listeners, <<event, handler>>, in order
\* src          what the element's source is: "none", "videostream",
\*              "mediasource" (an object URL of a MediaSource), "blob"
\* alt          the element's alt attribute
\* ready        the element has the metadata of its current source
\* elemTime     elem.currentTime
\* currentTime  the closure variable `currentTime`
\* getElemCalls calls of the getElem hook; created: document.createElement
\* cbLog        the calls of the caller's callback
\* attempts     the strategies started, in order
\* reads        the read streams opened on the file
\* pendingBlob  getBlobURL promises not settled, by the function waiting
\* playPending  play() promises not settled
\* sniff        the sniffing read: "none", "pending", "ended", "errored"
\* str          the closure variable `str` of tryRenderIframe
\* adapters     the adapters constructed on the element and not destroyed
\* unhandled    exceptions thrown out of asynchronous callbacks
\* fallbacks    the fallbacks taken: the strategy started and the value of
\*              `currentTime` when the fallback handler ran
\* applied      the positions written back to elem.currentTime, by strategy
\* outcome      per source, what the element has fired while it had that
\*              source: "none", "loadstart", "playable", "error", or "many"
\*              when it fired more than one outcome
\* nEvents      the element events dispatched
\* exc          an exception is propagating
InitSess ==
  [elem |-> NoElem, attached |-> FALSE,
   mediaOpts |-> [set |-> FALSE, autoplay |-> FALSE, muted |-> FALSE,
                  controls |-> FALSE],
   listeners |-> <<>>, src |-> "none", alt |-> NoName, ready |-> FALSE,
   elemTime |-> 0, currentTime |-> 0, getElemCalls |-> 0, created |-> 0,
   cbLog |-> <<>>, attempts |-> <<>>, reads |-> <<>>, pendingBlob |-> {},
   playPending |-> 0, playRejected |-> FALSE, sniff |-> "none", str |-> <<>>,
   adapters |-> {},
   unhandled |-> 0, fallbacks |-> <<>>, applied |-> <<>>,
   outcome |-> [x \in {"videostream", "mediasource", "blob"} |-> "none"],
   nEvents |-> 0, exc |-> FALSE]

\* elem.addEventListener: a listener already registered is not added again.
addEventListener(s, event, handler) ==
  IF \E i \in 1..Len(s.listeners) : s.listeners[i] = <<event, handler>>
  THEN s
  ELSE [s EXCEPT !.listeners = Append(@, <<event, handler>>)]

removeEventListener(s, event, handler) ==
  [s EXCEPT !.listeners = SelectSeq(@, LAMBDA l : l # <<event, handler>>)]

HasListener(s, event, handler) ==
  \E i \in 1..Len(s.listeners) : s.listeners[i] = <<event, handler>>

\* file.createReadStream(range)
createReadStream(s, by, ranged) ==
  [s EXCEPT !.reads = Append(@, [by |-> by, ranged |-> ranged])]

setMediaOpts(s) ==
  [s EXCEPT !.mediaOpts = [set |-> TRUE, autoplay |-> opts.autoplay,
                           muted |-> opts.muted, controls |-> opts.controls]]

\* The caller's callback: what it is given, whether the render has an
\* element and whether that element is in its parent when the callback runs.
\* Also kept: the strategy last started and the element's source then.
callerCb(s, err, el) ==
  [s EXCEPT !.cbLog = Append(@, [err |-> err, elem |-> el,
                                 hadElem |-> s.elem # NoElem,
                                 attached |-> s.attached,
                                 strategy |-> IF s.attempts = <<>> THEN "none"
                                              ELSE s.attempts[Len(s.attempts)],
                                 src |-> s.src])]

\* append's done(err, elem)
done(s, err, el) ==
  LET s1 == IF err # NoErr /\ el # NoElem
            THEN [s EXCEPT !.attached = FALSE]
            ELSE s
  IN callerCb(s1, err, el)

\* The cb parameter of renderMedia: render passes the caller's callback,
\* append passes done.
cb(s, err, el) ==
  IF api = "append" THEN done(s, err, el) ELSE callerCb(s, err, el)

fatalError(s, err) == cb(s, [err EXCEPT !.annotated = TRUE], NoElem)

\* append's createElem / createMedia and getElem
createElem(s, tagName) ==
  [s EXCEPT !.elem = tagName, !.created = @ + 1, !.attached = TRUE]

createMedia(s, tagName) == setMediaOpts(createElem(s, tagName))

appendGetElem(s, tagName) ==
  IF tagName \in {"video", "audio"}
  THEN createMedia(s, tagName)
  ELSE createElem(s, tagName)

\* render's hook: the caller's element (which is in the document), or an
\* exception when its tag is not the one asked for.
renderGetElem(s, tagName) ==
  IF target # ToUpperCase(tagName)
  THEN [s EXCEPT !.exc = TRUE]
  ELSE LET s1 == [s EXCEPT !.elem = tagName, !.attached = TRUE]
       IN IF tagName \in {"video", "audio"} THEN setMediaOpts(s1) ELSE s1

\* elem = getElem(tagName)
getElem(s, tagName) ==
  LET s1 == [s EXCEPT !.getElemCalls = @ + 1]
  IN IF api = "append" THEN appendGetElem(s1, tagName)
     ELSE renderGetElem(s1, tagName)

\* checkBlobLength rejecting a file whose length is not known
checkBlobLengthOk_rejectsUnknown ==
  IsNumber(file.length) /\ file.length <= opts.maxBlobLength

checkBlobLengthOk == ~(IsNumber(file.length) /\ file.length > opts.maxBlobLength)

\* checkBlobLength(): the session it leaves (fatalError called when too large)
checkBlobLength(s) ==
  IF checkBlobLengthOk THEN s ELSE fatalError(s, Err("toolarge"))

\* getBlobURL(file, cb): opens one full read; the promise settles later.
getBlobURL(s, waiting) ==
  [createReadStream(s, "blob", FALSE) EXCEPT !.pendingBlob = @ \cup {waiting}]

\* Assigning a new source to a media element resets its playback position.
setSrc(s, source) ==
  [s EXCEPT !.src = source, !.ready = FALSE, !.elemTime = 0]

\* if (currentTime) elem.currentTime = currentTime
applyCurrentTime(s, by) ==
  IF s.currentTime # 0
  THEN [s EXCEPT !.elemTime = s.currentTime,
                 !.applied = Append(@, [by |-> by, pos |-> s.currentTime])]
  ELSE s

\* prepareElem asking for an element on every call
prepareElem_always(s) ==
  LET tagName == IF extname \in MEDIASOURCE_VIDEO_EXTS
                 THEN "video" ELSE "audio"
      s1 == getElem(s, tagName)
  IN IF s1.exc THEN s1 ELSE addEventListener(s1, "progress", "progress")

prepareElem(s) ==
  IF s.elem = NoElem
  THEN LET tagName == IF extname \in MEDIASOURCE_VIDEO_EXTS
                      THEN "video" ELSE "audio"
           s1 == getElem(s, tagName)
       IN IF s1.exc THEN s1 ELSE addEventListener(s1, "progress", "progress")
  ELSE s

attempt(s, strategy) == [s EXCEPT !.attempts = Append(@, strategy)]

\* new VideoStream(file, elem) / new MediaElementWrapper(elem) with its piped
\* read: an instance that feeds the element until it is destroyed.
construct(s, adapter) == [s EXCEPT !.adapters = @ \cup {adapter}]

\* The extensions getCodec has a codec for.
getCodecExts ==
  {".m4a", ".m4b", ".m4p", ".m4v", ".mkv", ".mp3", ".mp4", ".webm"}

useVideostream(s) ==
  LET s1 == prepareElem(s)
  IN IF s1.exc THEN s1
     ELSE LET s2 == addEventListener(s1, "error", "fallbackToMediaSource")
              s3 == addEventListener(s2, "loadstart", "onLoadStart")
              s4 == addEventListener(s3, "loadedmetadata", "onLoadedMetadata")
          IN \* new VideoStream(file, elem)
             setSrc(createReadStream(
                      construct(attempt(s4, "videostream"), "videostream"),
                      "videostream", TRUE), "videostream")

useMediaSource(s) ==
  LET s1 == prepareElem(s)
  IN IF s1.exc THEN s1
     ELSE LET s2 == addEventListener(s1, "error", "fallbackToBlobURL")
              s3 == addEventListener(s2, "loadstart", "onLoadStart")
              s4 == addEventListener(s3, "loadedmetadata", "onLoadedMetadata")
              \* new MediaElementWrapper(elem); createWriteStream; pipe
              s5 == setSrc(construct(attempt(s4, "mediasource"),
                                     "mediasource"), "mediasource")
              s6 == createReadStream(s5, "mediasource", FALSE)
          IN applyCurrentTime(s6, "mediasource")

useBlobURL(s) ==
  LET s1 == prepareElem(s)
  IN IF s1.exc THEN s1
     ELSE LET s2 == addEventListener(s1, "error", "fatalError")
              s3 == addEventListener(s2, "loadstart", "onLoadStart")
              s4 == addEventListener(s3, "loadedmetadata", "onLoadedMetadata")
          IN getBlobURL(attempt(s4, "blob"), "useBlobURL")

\* the callback useBlobURL gives getBlobURL
useBlobURLDone(s, ok) ==
  IF ~ok THEN fatalError(s, Err("blob"))
  ELSE applyCurrentTime(setSrc(s, "blob"), "blob")

noteFallback(s, to) ==
  [s EXCEPT !.fallbacks = Append(@, [to |-> to, pos |-> s.currentTime])]

\* fallbackToMediaSource passing the intercepted error on to the callback
fallbackToMediaSource_reportsError(s) ==
  LET s1 == removeEventListener(s, "error", "fallbackToMediaSource")
      s2 == removeEventListener(s1, "loadedmetadata", "onLoadedMetadata")
  IN useMediaSource(noteFallback(fatalError(s2, Err("event")), "mediasource"))

\* fallbackToMediaSource leaving its own error listener registered
fallbackToMediaSource_keepsListener(s) ==
  LET s2 == removeEventListener(s, "loadedmetadata", "onLoadedMetadata")
  IN useMediaSource(noteFallback(s2, "mediasource"))

fallbackToMediaSource(s) ==
  LET s1 == removeEventListener(s, "error", "fallbackToMediaSource")
      s2 == removeEventListener(s1, "loadedmetadata", "onLoadedMetadata")
  IN useMediaSource(noteFallback(s2, "mediasource"))

\* fallbackToBlobURL leaving its own error listener registered
fallbackToBlobURL_keepsListener(s) ==
  IF ~checkBlobLengthOk THEN checkBlobLength(s)
  ELSE LET s2 == removeEventListener(s, "loadedmetadata", "onLoadedMetadata")
       IN useBlobURL(noteFallback(s2, "blob"))

\* fallbackToBlobURL passing the intercepted error on to the callback
fallbackToBlobURL_reportsError(s) ==
  IF ~checkBlobLengthOk THEN checkBlobLength(s)
  ELSE LET s1 == removeEventListener(s, "error", "fallbackToBlobURL")
           s2 == removeEventListener(s1, "loadedmetadata", "onLoadedMetadata")
       IN useBlobURL(noteFallback(fatalError(s2, Err("event")), "blob"))

fallbackToBlobURL(s) ==
  IF ~checkBlobLengthOk THEN checkBlobLength(s)
  ELSE LET s1 == removeEventListener(s, "error", "fallbackToBlobURL")
           s2 == removeEventListener(s1, "loadedmetadata", "onLoadedMetadata")
       IN useBlobURL(noteFallback(s2, "blob"))

\* renderMediaSource choosing videostream by the extension alone
renderMediaSource_extensionFirst(s) ==
  IF extname \in VIDEOSTREAM_EXTS THEN useVideostream(s)
  ELSE IF MediaSource THEN useMediaSource(s)
  ELSE useBlobURL(s)

renderMediaSource(s) ==
  IF MediaSource
  THEN IF extname \in VIDEOSTREAM_EXTS
       THEN useVideostream(s)
       ELSE useMediaSource(s)
  ELSE useBlobURL(s)

\* playPromise: elem.play() returned a promise (it returns undefined on
\* old runtimes)
onLoadStart(s, playPromise) ==
  LET s1 == removeEventListener(s, "loadstart", "onLoadStart")
  IN IF opts.autoplay /\ playPromise
     THEN [s1 EXCEPT !.playPending = @ + 1]
     ELSE s1

onLoadedMetadata(s) ==
  cb(removeEventListener(s, "loadedmetadata", "onLoadedMetadata"),
     NoErr, s.elem)

onProgress(s) == [s EXCEPT !.currentTime = s.elemTime]

renderMediaElement(s, type) ==
  IF ~checkBlobLengthOk THEN checkBlobLength(s)
  ELSE LET s1 == getElem(s, type)
       IN IF s1.exc THEN s1
          ELSE getBlobURL(attempt(s1, "blob"), "renderMediaElement")

renderMediaElementDone(s, ok) ==
  IF ~ok THEN fatalError(s, Err("blob"))
  ELSE LET s1 == addEventListener(s, "error", "fatalError")
           s2 == addEventListener(s1, "loadstart", "onLoadStart")
           s3 == addEventListener(s2, "loadedmetadata", "onLoadedMetadata")
       IN setSrc(s3, "blob")

renderImage(s) ==
  LET s1 == getElem(s, "img")
  IN IF s1.exc THEN s1 ELSE getBlobURL(s1, "renderImage")

\* renderImage's callback without the alt assignment
renderImageDone_noAlt(s, ok) ==
  IF ~ok THEN fatalError(s, Err("blob"))
  ELSE LET s1 == [s EXCEPT !.src = "blob"]
       IN cb(s1, NoErr, s1.elem)

renderImageDone(s, ok) ==
  IF ~ok THEN fatalError(s, Err("blob"))
  ELSE LET s1 == [s EXCEPT !.src = "blob", !.alt = file.name]
       IN cb(s1, NoErr, s1.elem)

renderIframe(s) == getBlobURL(s, "renderIframe")

renderIframeDone(s, ok) ==
  IF ~ok THEN fatalError(s, Err("blob"))
  ELSE LET s1 == getElem(s, IF extname # ".pdf" THEN "iframe" ELSE "object")
       IN IF s1.exc THEN s1
          ELSE LET s2 == [s1 EXCEPT !.src = "blob"]
               IN cb(s2, NoErr, s2.elem)

\* is-ascii: no character code above 127
isAscii(str) == \A i \in 1..Len(str) : str[i] <= 127

\* file.createReadStream({ start: 0, end: 1000 })...
tryRenderIframe(s) ==
  [createReadStream(s, "sniff", TRUE) EXCEPT !.sniff = "pending"]

\* .setEncoding('utf8'): a byte below 128 is that character; a byte that
\* is no UTF-8 on its own decodes to U+FFFD.
setEncodingUtf8(bytes) ==
  [i \in 1..Len(bytes) |-> IF bytes[i] < 128 THEN bytes[i] ELSE 65533]

\* .on('data', chunk => { str += chunk })
tryRenderIframeData(s, bytes) ==
  [s EXCEPT !.str = @ \o setEncodingUtf8(bytes)]

\* done() rendering whatever was read, without the isAscii test
tryRenderIframeDone_alwaysRenders(s) ==
  renderIframe([s EXCEPT !.sniff = "ended"])

\* done(), the 'end' listener of the sniffing read
tryRenderIframeDone(s) ==
  LET s1 == [s EXCEPT !.sniff = "ended"]
  IN IF isAscii(s1.str) THEN renderIframe(s1)
     ELSE cb(s1, Err("unsupported"), NoElem)

\* .on('error', cb)
tryRenderIframeError(s) ==
  cb([s EXCEPT !.sniff = "errored"], Err("sniff"), NoElem)

renderMedia(s) ==
  IF extname \in MEDIASOURCE_EXTS THEN renderMediaSource(s)
  ELSE IF extname \in VIDEO_EXTS THEN renderMediaElement(s, "video")
  ELSE IF extname \in AUDIO_EXTS THEN renderMediaElement(s, "audio")
  ELSE IF extname \in IMAGE_EXTS THEN renderImage(s)
  ELSE IF extname \in IFRAME_EXTS THEN renderIframe(s)
  ELSE tryRenderIframe(s)

\* validateFile(file) throws
validateFileThrows ==
  \/ file.isNull
  \/ ~file.nameIsString
  \/ ~file.createReadStream

render(s) ==
  IF validateFileThrows THEN [s EXCEPT !.exc = TRUE] ELSE renderMedia(s)

\* append without the check of the parent's nodeName
append_noParentCheck(s) ==
  IF validateFileThrows THEN [s EXCEPT !.exc = TRUE] ELSE renderMedia(s)

append(s) ==
  IF validateFileThrows THEN [s EXCEPT !.exc = TRUE]
  ELSE IF target \in {"VIDEO", "AUDIO"} THEN [s EXCEPT !.exc = TRUE]
  ELSE renderMedia(s)

\* ------------------------------------------------------- event dispatch
Listener(s, handler, playPromise) ==
  CASE handler = "fallbackToMediaSource" -> fallbackToMediaSource(s)
    [] handler = "fallbackToBlobURL" -> fallbackToBlobURL(s)
    [] handler = "fatalError" -> fatalError(s, Err("event"))
    [] handler = "onLoadStart" -> onLoadStart(s, playPromise)
    [] handler = "onLoadedMetadata" -> onLoadedMetadata(s)
    [] handler = "progress" -> onProgress(s)

\* The listeners registered for the event when it is dispatched run in
\* order; one removed by an earlier listener of the same dispatch is skipped.
RECURSIVE RunListeners(_, _, _, _)
RunListeners(s, event, todo, playPromise) ==
  IF todo = <<>> THEN s
  ELSE LET h == Head(todo)[2]
           s1 == IF HasListener(s, event, h)
                 THEN Listener(s, h, playPromise) ELSE s
       IN RunListeners(s1, event, Tail(todo), playPromise)

NextOutcome(old, event) ==
  CASE event = "progress" -> old
    [] old = "none" /\ event = "error" -> "error"
    [] old = "none" /\ event = "loadstart" -> "loadstart"
    [] old = "loadstart" /\ event = "loadedmetadata" -> "playable"
    [] OTHER -> "many"

dispatchEvent(s, event, playPromise) ==
  LET s1 == [s EXCEPT !.nEvents = @ + 1,
                      !.outcome[s.src] = NextOutcome(@, event)]
      todo == SelectSeq(s1.listeners, LAMBDA l : l[1] = event)
  IN RunListeners(s1, event, todo, playPromise)

\* -------------------------------------------------------------- actions
Init ==
  /\ phase = "start"
  /\ api \in {"render", "append"}
  /\ file \in Files
  /\ optsIn \in OptsIn
  /\ target \in (IF api = "render" THEN RenderTargets ELSE AppendTargets)
  /\ MediaSource \in BOOLEAN
  /\ sess = InitSess

Inputs == <<api, file, optsIn, target, MediaSource>>

\* The call itself, up to its return or its throw.
Call ==
  /\ phase = "start"
  /\ LET s == IF api = "render" THEN render(sess) ELSE append(sess)
     IN /\ sess' = [s EXCEPT !.exc = FALSE]
        /\ phase' = IF s.exc THEN "thrown" ELSE "returned"
  /\ UNCHANGED Inputs

Running == phase = "returned"

CanFire ==
  /\ Running
  /\ sess.elem \in {"video", "audio"}
  /\ sess.src # "none"
  /\ sess.nEvents < MaxEvents

\* The element fires `progress`; once it has metadata its playback position
\* is whatever playback and seeking have made it.
Progress ==
  /\ CanFire
  /\ \E t \in 0..MaxTime :
       /\ sess.ready \/ t = sess.elemTime
       /\ sess' = dispatchEvent([sess EXCEPT !.elemTime = t], "progress", FALSE)
  /\ UNCHANGED <<phase, Inputs>>

LoadStart ==
  /\ CanFire
  /\ \E playPromise \in (IF opts.autoplay THEN BOOLEAN ELSE {TRUE}) :
       sess' = dispatchEvent(sess, "loadstart", playPromise)
  /\ UNCHANGED <<phase, Inputs>>

LoadedMetadata ==
  /\ CanFire
  /\ sess' = dispatchEvent([sess EXCEPT !.ready = TRUE], "loadedmetadata", FALSE)
  /\ UNCHANGED <<phase, Inputs>>

ErrorEvent ==
  /\ CanFire
  /\ sess' = dispatchEvent(sess, "error", FALSE)
  /\ UNCHANGED <<phase, Inputs>>

\* A callback run from a promise or a stream: an exception it throws is
\* nobody's to catch.
Async(s) ==
  IF s.exc THEN [s EXCEPT !.exc = FALSE, !.unhandled = @ + 1] ELSE s

BlobContinuation(s, waiting, ok) ==
  CASE waiting = "useBlobURL" -> useBlobURLDone(s, ok)
    [] waiting = "renderMediaElement" -> renderMediaElementDone(s, ok)
    [] waiting = "renderImage" -> renderImageDone(s, ok)
    [] waiting = "renderIframe" -> renderIframeDone(s, ok)

\* streamToBlobURL's promise settles: with a Blob URL, or with an error.
BlobSettled ==
  /\ Running
  /\ \E waiting \in sess.pendingBlob, ok \in BOOLEAN :
       sess' = Async(BlobContinuation(
                 [sess EXCEPT !.pendingBlob = @ \ {waiting}], waiting, ok))
  /\ UNCHANGED <<phase, Inputs>>

\* A play() promise settles: fulfilled, or rejected (playPromise.catch).
PlaySettled ==
  /\ Running
  /\ sess.playPending > 0
  /\ \E rejected \in BOOLEAN :
       LET s == [sess EXCEPT !.playPending = @ - 1]
       IN sess' = IF rejected
                  THEN fatalError([s EXCEPT !.playRejected = TRUE], Err("play"))
                  ELSE s
  /\ UNCHANGED <<phase, Inputs>>

\* The sniffing read ends with the prefix read, or errors.
SniffEnd ==
  /\ Running
  /\ sess.sniff = "pending"
  /\ \E bytes \in Prefixes :
       sess' = Async(tryRenderIframeDone(tryRenderIframeData(sess, bytes)))
  /\ UNCHANGED <<phase, Inputs>>

SniffError ==
  /\ Running
  /\ sess.sniff = "pending"
  /\ sess' = tryRenderIframeError(sess)
  /\ UNCHANGED <<phase, Inputs>>

Next ==
  \/ Call
  \/ Progress
  \/ LoadStart
  \/ LoadedMetadata
  \/ ErrorEvent
  \/ BlobSettled
  \/ PlaySettled
  \/ SniffEnd
  \/ SniffError

Spec == Init /\ [][Next]_vars

\* ---------------------------------------------------------------- claims
cbCount == Len(sess.cbLog)

StreamingFile == ~validateFileThrows /\ extname \in MEDIASOURCE_EXTS
MediaFile ==
  ~validateFileThrows /\ extname \in MEDIASOURCE_EXTS \cup VIDEO_EXTS \cup AUDIO_EXTS

Rank(strategy) ==
  CASE strategy = "videostream" -> 1
    [] strategy = "mediasource" -> 2
    [] strategy = "blob" -> 3

\* C1: the completion callback is never invoked twice in one render.
C1_CallbackAtMostOnce == cbCount <= 1

\* C2: a call that returned without throwing reports through the callback:
\* when nothing is pending any more (no promise, no read, no listener that
\* could still report), the callback has been invoked.
C2_QuiescentImpliesReported ==
  ( /\ phase = "returned"
    /\ sess.pendingBlob = {}
    /\ sess.playPending = 0
    /\ sess.sniff # "pending"
    /\ ~\E i \in 1..Len(sess.listeners) :
          sess.listeners[i][1] \in {"error", "loadedmetadata"} )
  => cbCount >= 1

\* C3: strategies are attempted in the order videostream, MediaSource,
\* Blob URL, each at most once, none again after a later one was started,
\* and MediaSource never without MediaSource support.
C3_StrategyOrder ==
  /\ \A i, j \in 1..Len(sess.attempts) :
       i < j => Rank(sess.attempts[i]) < Rank(sess.attempts[j])
  /\ ~MediaSource =>
       \A i \in 1..Len(sess.attempts) : sess.attempts[i] # "mediasource"

\* C3 witness: all three strategies were attempted and an error event was
\* dispatched after the last one had started.
C3_Witness ==
  /\ sess.attempts = <<"videostream", "mediasource", "blob">>
  /\ sess.outcome["mediasource"] = "many"
  /\ cbCount >= 1

\* C4 (as claimed): videostream is attempted first iff the runtime lacks
\* MediaSource or the extension is direct-streaming eligible, and MediaSource
\* first when the runtime has it and the extension is not eligible.
C4_FirstStrategyAsClaimed ==
  (StreamingFile /\ sess.attempts # <<>>) =>
    /\ sess.attempts[1] = "videostream"
         <=> (~MediaSource \/ extname \in VIDEOSTREAM_EXTS)
    /\ (MediaSource /\ extname \notin VIDEOSTREAM_EXTS)
         => sess.attempts[1] = "mediasource"

\* C4 (amended): the first strategy is a function of the extension and of
\* MediaSource support only: videostream when the runtime has MediaSource and
\* the extension is direct-streaming eligible, MediaSource when it has it and
\* the extension is not, Blob URL when the runtime lacks MediaSource; and a
\* streaming file whose call returned has had a strategy started.
C4_FirstStrategy ==
  StreamingFile =>
    /\ phase = "returned" => sess.attempts # <<>>
    /\ sess.attempts # <<>> =>
         sess.attempts[1] =
           ( IF ~MediaSource THEN "blob"
             ELSE IF extname \in VIDEOSTREAM_EXTS THEN "videostream"
             ELSE "mediasource" )

\* C4 witness: an .mp4 (named in upper case) on a runtime without
\* MediaSource started with the Blob URL, whose error event was fatal.
C4_Witness ==
  /\ file.name.ext = ".MP4"
  /\ ~MediaSource
  /\ sess.attempts = <<"blob">>
  /\ sess.outcome["blob"] = "error"
  /\ cbCount = 1

TooLarge == IsNumber(file.length) /\ file.length > opts.maxBlobLength

\* C5: for an audio/video file longer than maxBlobLength no read stream is
\* opened for the Blob URL, on any way of reaching materialization.
C5_NoBlobReadWhenTooLarge ==
  (MediaFile /\ TooLarge) =>
    \A i \in 1..Len(sess.reads) : sess.reads[i].by # "blob"

\* C6: in append(), when the callback receives an error after an element
\* was created, the element is no longer in the parent when the callback
\* runs; on success it is.
C6_AppendRemovesOnFailure ==
  api = "append" =>
    \A i \in 1..cbCount :
      LET c == sess.cbLog[i]
      IN /\ (c.err # NoErr /\ c.hadElem) => ~c.attached
         /\ c.err = NoErr => c.attached

\* The tag a file is rendered into.
InferredTag ==
  IF extname \in MEDIASOURCE_VIDEO_EXTS \cup VIDEO_EXTS THEN "video"
  ELSE IF extname \in MEDIASOURCE_AUDIO_EXTS \cup AUDIO_EXTS THEN "audio"
  ELSE IF extname \in IMAGE_EXTS THEN "img"
  ELSE IF extname = ".pdf" THEN "object"
  ELSE "iframe"

\* C7: render() into an element of another tag than the file's throws out
\* of the call, before any read stream is opened.
C7_TagMismatchThrowsSync ==
  ( /\ api = "render"
    /\ phase # "start"
    /\ ~validateFileThrows
    /\ target # ToUpperCase(InferredTag) )
  => (phase = "thrown" /\ sess.reads = <<>>)

\* C8: the position captured before a fallback (when positive) is the one
\* the next strategy writes back to the element once it has attached its
\* source.
C8_PositionReapplied ==
  \A i \in 1..Len(sess.fallbacks) :
    LET f == sess.fallbacks[i]
    IN (f.pos > 0 /\ (f.to = "blob" => sess.src = "blob")) =>
         \E j \in 1..Len(sess.applied) :
           sess.applied[j] = [by |-> f.to, pos |-> f.pos]

\* C9: once an autoplay rejection has been reported, no strategy is started
\* and the callback is not invoked again.
C9_AutoplayRejectionTerminal ==
  [][sess.playRejected =>
       (sess'.attempts = sess.attempts /\ sess'.cbLog = sess.cbLog)]_vars

\* Each source has fired at most one outcome (one error, or loadstart then
\* loadedmetadata), no autoplay was rejected and the length guard passes.
WellBehaved ==
  /\ \A x \in DOMAIN sess.outcome : sess.outcome[x] # "many"
  /\ ~sess.playRejected
  /\ ~TooLarge

\* C10: with well-behaved adapters the callback fires exactly once: with the
\* element when a strategy becomes playable, with the terminal strategy's
\* error when the Blob URL errors; and never twice.
C10_ExactlyOnceWhenWellBehaved ==
  WellBehaved =>
    /\ cbCount <= 1
    /\ (sess.src # "none" /\ sess.outcome[sess.src] = "playable") =>
         /\ cbCount = 1
         /\ sess.cbLog[1].err = NoErr
         /\ sess.cbLog[1].elem = sess.elem
    /\ (sess.src = "blob" /\ sess.outcome["blob"] = "error") =>
         /\ cbCount = 1
         /\ sess.cbLog[1].err = [kind |-> "event", annotated |-> TRUE]

\* C10 witness: videostream and MediaSource errored, the Blob URL became
\* playable, and the callback was invoked once.
C10_Witness ==
  /\ WellBehaved
  /\ sess.attempts = <<"videostream", "mediasource", "blob">>
  /\ sess.outcome["blob"] = "playable"
  /\ cbCount = 1

\* The dispatcher's own listeners still registered on the element.
DispatcherListeners(s) ==
  { s.listeners[i] : i \in { j \in 1..Len(s.listeners) :
      s.listeners[j][1] \in {"error", "loadstart", "loadedmetadata"} } }

\* C11: a step that invokes the callback with success leaves none of the
\* dispatcher's error, loadstart or loadedmetadata listeners on the element.
C11_DetachedOnSuccess ==
  [][( /\ Len(sess'.cbLog) > Len(sess.cbLog)
       /\ sess'.cbLog[Len(sess'.cbLog)].err = NoErr )
     => DispatcherListeners(sess') = {}]_vars

UnknownFile ==
  /\ ~validateFileThrows
  /\ extname \notin MEDIASOURCE_EXTS \cup VIDEO_EXTS \cup AUDIO_EXTS
                      \cup IMAGE_EXTS \cup IFRAME_EXTS

\* The target takes an iframe: append into a parent, or render into an IFRAME.
IframeTarget == api = "append" \/ target = "IFRAME"

SniffRead == [by |-> "sniff", ranged |-> TRUE]

UnsupportedOutcome ==
  /\ cbCount = 1
  /\ sess.cbLog[1].err.kind = "unsupported"
  /\ sess.cbLog[1].elem = NoElem
  /\ sess.elem = NoElem
  /\ sess.created = 0
  /\ sess.reads = <<SniffRead>>

ValidationFails ==
  validateFileThrows \/ (api = "append" /\ target \in {"VIDEO", "AUDIO"})

\* C13: a call whose file is invalid, or an append into a VIDEO or AUDIO
\* parent, throws before returning, and has opened no read, created or
\* attached no element, and never invokes the callback.
C13_ValidationEffectFree ==
  (ValidationFails /\ phase # "start") =>
    /\ phase = "thrown"
    /\ sess.reads = <<>>
    /\ sess.created = 0
    /\ sess.elem = NoElem
    /\ ~sess.attached
    /\ sess.getElemCalls = 0
    /\ sess.pendingBlob = {}
    /\ sess.sniff = "none"
    /\ cbCount = 0

\* C13 witness: an append of a valid file into an AUDIO parent has thrown.
C13_Witness ==
  /\ phase = "thrown"
  /\ api = "append"
  /\ target = "AUDIO"
  /\ ~validateFileThrows

\* C14: every error passed to the callback is annotated with the file name.
C14_ErrorsAnnotated ==
  \A i \in 1..cbCount :
    sess.cbLog[i].err # NoErr => sess.cbLog[i].err.annotated

HasBlobRead == \E i \in 1..Len(sess.reads) : sess.reads[i].by = "blob"

\* C15: a file without a numeric length is never reported too large,
\* whatever maxBlobLength is, and materialization goes ahead: on the plain
\* audio/video path once the element is there, and as the fallback after
\* the MediaSource strategy's error.
C15_UnknownLengthNeverRejected ==
  (~validateFileThrows /\ ~IsNumber(file.length)) =>
    /\ \A i \in 1..cbCount : sess.cbLog[i].err.kind # "toolarge"
    /\ (extname \in VIDEO_EXTS \cup AUDIO_EXTS /\ sess.elem # NoElem)
         => HasBlobRead
    /\ sess.outcome["mediasource"] = "error" =>
         (HasBlobRead /\ sess.attempts[Len(sess.attempts)] = "blob")

\* C15 witness: with maxBlobLength 10 and no length, the MediaSource
\* strategy errored and the Blob URL became the element's source.
C15_Witness ==
  /\ ~IsNumber(file.length)
  /\ optsIn.maxBlobLength = 10
  /\ sess.outcome["mediasource"] = "error"
  /\ sess.src = "blob"

ImageFile == ~validateFileThrows /\ extname \in IMAGE_EXTS

\* C16: for an image file, once the Blob URL has settled the callback has
\* been invoked once; when it materialized, with no error and the img
\* element, whose src is the Blob URL and whose alt is the file name, in its
\* parent: with append the one element created, with render the caller's.
C16_ImageRendered ==
  (ImageFile /\ phase = "returned" /\ sess.pendingBlob = {}) =>
    /\ cbCount = 1
    /\ \/ sess.cbLog[1].err = [kind |-> "blob", annotated |-> TRUE]
       \/ /\ sess.cbLog[1] = [err |-> NoErr, elem |-> "img", hadElem |-> TRUE,
                              attached |-> TRUE, strategy |-> "none",
                              src |-> "blob"]
          /\ sess.elem = "img"
          /\ sess.src = "blob"
          /\ sess.alt = file.name
          /\ sess.attached
          /\ sess.getElemCalls = 1
          /\ sess.created = (IF api = "append" THEN 1 ELSE 0)
          /\ api = "render" => target = "IMG"

\* C16 witness: a .png rendered into the caller's img element.
C16_Witness ==
  /\ api = "render"
  /\ file.name = [stem |-> "f", ext |-> ".png"]
  /\ cbCount = 1
  /\ sess.cbLog[1].err = NoErr
  /\ sess.alt = file.name

Categories ==
  <<MEDIASOURCE_VIDEO_EXTS, MEDIASOURCE_AUDIO_EXTS, VIDEO_EXTS, AUDIO_EXTS,
    IMAGE_EXTS, IFRAME_EXTS>>

\* C17: the six category tables are pairwise disjoint, every extension
\* eligible for videostream is eligible for MediaSource, and so every file
\* for which the MediaSource strategy is started has a codec.
C17_TablesWellFormed ==
  /\ \A i, j \in 1..Len(Categories) :
       i # j => Categories[i] \cap Categories[j] = {}
  /\ VIDEOSTREAM_EXTS \subseteq MEDIASOURCE_VIDEO_EXTS \cup MEDIASOURCE_AUDIO_EXTS
  /\ "mediasource" \in sess.adapters => extname \in getCodecExts
  /\ "videostream" \in sess.adapters => extname \in MEDIASOURCE_EXTS

\* C17 witness: a videostream file has fallen back to MediaSource.
C17_Witness ==
  /\ extname \in VIDEOSTREAM_EXTS
  /\ sess.attempts = <<"videostream", "mediasource">>

\* C18: an error event is passed to the callback only once the terminal
\* strategy (Blob URL) has been started; every other error the callback
\* receives is a materialization failure, a length-guard rejection, an
\* autoplay rejection, or comes from the unknown-extension path.
C18_ErrorsIntercepted ==
  \A i \in 1..cbCount :
    LET c == sess.cbLog[i]
    IN c.err # NoErr =>
         /\ c.err.kind \in {"event", "blob", "toolarge", "play", "unsupported",
                            "sniff"}
         /\ c.err.kind = "event" => c.strategy = "blob"
         /\ c.err.kind = "toolarge" => TooLarge
         /\ c.err.kind = "play" => opts.autoplay
         /\ c.err.kind \in {"unsupported", "sniff"} => UnknownFile

\* C18 witness: videostream and MediaSource errored without a report, and
\* the Blob URL's error event is the one error the callback received.
C18_Witness ==
  /\ sess.attempts = <<"videostream", "mediasource", "blob">>
  /\ sess.outcome["videostream"] = "error"
  /\ sess.outcome["mediasource"] = "error"
  /\ sess.outcome["blob"] = "error"
  /\ cbCount = 1
  /\ sess.cbLog[1].err.kind = "event"

\* C19: once the callback has been invoked, no step starts a strategy,
\* constructs an adapter or opens a read stream.
C19_TerminalAfterCallback ==
  [][cbCount >= 1 =>
       /\ sess'.attempts = sess.attempts
       /\ sess'.adapters = sess.adapters
       /\ sess'.reads = sess.reads]_vars

\* C20: at most one adapter is constructed and not destroyed at any time,
\* and an event taken for the current strategy's playable signal was fired
\* while the element had that strategy's source.
C20_OneAdapterAtATime ==
  /\ Cardinality(sess.adapters) <= 1
  /\ \A i \in 1..cbCount :
       LET c == sess.cbLog[i]
       IN (c.err = NoErr /\ c.strategy # "none") => c.src = c.strategy

\* C21: the getElem hook is called at most once per render and append
\* creates at most one element; on the streaming path every strategy
\* started has that one element, whose tag is video iff the extension is a
\* MediaSource video extension and audio otherwise.
C21_ElementPreparedOnce ==
  /\ sess.getElemCalls <= 1
  /\ sess.created <= (IF api = "append" THEN 1 ELSE 0)
  /\ (StreamingFile /\ sess.attempts # <<>>) =>
       /\ sess.getElemCalls = 1
       /\ sess.elem = (IF extname \in MEDIASOURCE_VIDEO_EXTS
                       THEN "video" ELSE "audio")

\* C21 witness: append went through all three strategies with one element.
C21_Witness ==
  /\ api = "append"
  /\ sess.attempts = <<"videostream", "mediasource", "blob">>
  /\ sess.getElemCalls = 1
  /\ sess.created = 1

\* The dispatcher's error handlers registered on the element.
ErrorHandlers(s) ==
  { h \in {"fallbackToMediaSource", "fallbackToBlobURL", "fatalError"} :
      HasListener(s, "error", h) }

\* The error handler a strategy registers.
ErrorHandlerOf(strategy) ==
  CASE strategy = "videostream" -> "fallbackToMediaSource"
    [] strategy = "mediasource" -> "fallbackToBlobURL"
    [] OTHER -> "fatalError"

\* C22: at most one of the dispatcher's error handlers is registered, and
\* on the streaming path it is the handler of the strategy started last;
\* one step (one element event) starts at most one strategy.
C22_OneErrorHandler ==
  /\ [](/\ Cardinality(ErrorHandlers(sess)) <= 1
        /\ (StreamingFile /\ sess.attempts # <<>>) =>
             ErrorHandlers(sess) =
               {ErrorHandlerOf(sess.attempts[Len(sess.attempts)])})
  /\ [][phase = "returned" =>
          Len(sess'.attempts) <= Len(sess.attempts) + 1]_vars

\* C22 witness: two fallbacks were taken and only fatalError is registered.
C22_Witness ==
  /\ sess.attempts = <<"videostream", "mediasource", "blob">>
  /\ ErrorHandlers(sess) = {"fatalError"}

====
